---- MODULE Spec2Model ----
(***************************************************************************)
(* A state-machine model of Granite (src/main.py): the rich-text note      *)
(* editor's block/level model, its typography scale, its indent scan, its  *)
(* link toggle, its file tree (rename / create / select) and its           *)
(* "<json header>:::<html>" persistence.                                   *)
(*                                                                         *)
(* Qt is the external collaborator.  What the model takes from it:         *)
(*   - QTextDocument.toHtml / setHtml keep the block sequence, each        *)
(*     block's text, margins, alignment and character formats, and drop    *)
(*     the user property 1001 and the userState of every block;            *)
(*   - every block/char format change of the document emits contentsChange *)
(*     (which is wired to App.save), block.setUserState does not;          *)
(*   - QTextCursor.select(BlockUnderCursor) selects the text of the block  *)
(*     and the paragraph separator in front of it, whose format is the     *)
(*     block character format: it selects nothing only in an empty first   *)
(*     block.                                                              *)
(* Numbers of the typography scale are exact rationals <<num, den>>.       *)
(***************************************************************************)
EXTENDS Integers, Sequences, FiniteSets, TLC

VARIABLES
    document,            \* text_edit.document(): the sequence of blocks
    cursor,              \* text_edit.textCursor(): [block, sel]
    currentCharFormat,   \* text_edit.currentCharFormat(): the typing format
    settings_dict,       \* App.settings_dict
    current_file,        \* App.current_file
    selected_dir,        \* App.selected_dir
    selection,           \* tree_view.selectedIndexes(): a path or None
    last_clicked_index,  \* App._last_clicked_index
    fs,                  \* the file system: path -> contents or NoFile
    link_button,         \* link_button.isChecked()
    link_input,          \* link_input: [text, visible]
    pending_link_url,    \* App._pending_link_url
    ts,                  \* a TypographyScale instance
    sizes                \* the results of ts.size_for(level), -1 = not asked

vars == <<document, cursor, currentCharFormat, settings_dict, current_file,
          selected_dir, selection, last_clicked_index, fs, link_button,
          link_input, pending_link_url, ts, sizes>>

(***************************************************************************)
(* Bounds of the model.                                                    *)
(***************************************************************************)
MaxBlocks == 2    \* blocks in a document
MaxLen == 1       \* characters in a block
MaxBase == 13     \* numerators of the scale base in the scale specification
MaxStep == 3      \* ratio = (den + step) / den, step in 1..MaxStep
MaxFiles == 3     \* documents under the data directory

(***************************************************************************)
(* Rationals and Python's round().                                         *)
(***************************************************************************)
RECURSIVE Pow(_, _)
Pow(b, e) == IF e = 0 THEN 1 ELSE b * Pow(b, e - 1)

\* Python 3 round(x) of x = n/d, n >= 0, d > 0: to nearest, ties to even.
round(n, d) ==
    LET q == n \div d
        r == n % d
    IN  IF 2 * r < d THEN q
        ELSE IF 2 * r > d THEN q + 1
        ELSE IF q % 2 = 0 THEN q ELSE q + 1

(***************************************************************************)
(* class TypographyScale                                                   *)
(***************************************************************************)
TypographyScale(base_size, ratio) == [base_size |-> base_size, ratio |-> ratio]

size_for_reversed(t, level) ==
    round(t.base_size[1] * Pow(t.ratio[1], level),
          t.base_size[2] * Pow(t.ratio[2], level))

\* round(self.base_size * (self.ratio ** (4-level)))
size_for(t, level) ==
    round(t.base_size[1] * Pow(t.ratio[1], 4 - level),
          t.base_size[2] * Pow(t.ratio[2], 4 - level))

(***************************************************************************)
(* Levels: the value of block property 1001.                               *)
(***************************************************************************)
H1 == "1"
H2 == "2"
H3 == "3"
Body == "4"
NoLevel == "None"    \* property(1001) of a block that has no such property
IntFour == "int 4"   \* the integer 4, the default of b.get('1001', 4)
Headings == {H1, H2, H3}
Tags == {H1, H2, H3, Body}

\* int(level) for a level that is truthy
int(level) ==
    CASE level = H1 -> 1
      [] level = H2 -> 2
      [] level = H3 -> 3
      [] OTHER -> 4

str(n) ==
    CASE n = 1 -> "1"
      [] n = 2 -> "2"
      [] n = 3 -> "3"
      [] n = 4 -> "4"
      [] OTHER -> "other"

\* INDENT_MAP.get(key, (0, 0))
INDENT_MAP(key) ==
    CASE key = "1" -> <<0, 0>>
      [] key = "2" -> <<10, 10>>
      [] key = "3" -> <<20, 20>>
      [] key = "4" -> <<30, 30>>
      [] OTHER -> <<0, 0>>

(***************************************************************************)
(* Formats.  A block carries its block format (property 1001 = lvl, the    *)
(* margins, the alignment), its userState, the point size of its block     *)
(* character format, its text length and the character format of its text  *)
(* (one run per block).                                                    *)
(***************************************************************************)
None == <<>>

\* QTextCharFormat() as the palette shows it: no anchor, palette text brush.
\* A URL is a sequence of parts, " " being white space; <<>> is "".
PaletteText == "palette.Text"
PlainCharFormat ==
    [anchor |-> FALSE, href |-> <<>>, underline |-> FALSE, fg |-> PaletteText]

DefaultSettings ==
    [accent_color |-> "#c7795f", scale_ratio |-> <<5, 4>>, scale_base |-> <<12, 1>>]

\* the widget font set in App.__init__: size_for(4) of the class defaults
DefaultPointSize ==
    size_for(TypographyScale(DefaultSettings.scale_base, DefaultSettings.scale_ratio), 4)

\* the only block of an empty QTextDocument
EmptyBlock ==
    [lvl |-> NoLevel, us |-> -1, left |-> 0, right |-> 0, size |-> DefaultPointSize,
     align |-> "left", len |-> 0, fmt |-> PlainCharFormat]

\* block.position(): every block ends with one separator character
RECURSIVE position(_, _)
position(doc, i) == IF i = 1 THEN 0 ELSE position(doc, i - 1) + doc[i - 1].len + 1

\* doc.findBlock(pos): the index of the block that contains pos, 0 = invalid
findBlock(doc, pos) ==
    LET hits == {i \in 1..Len(doc) :
                    position(doc, i) <= pos /\ pos <= position(doc, i) + doc[i].len}
    IN  IF hits = {} THEN 0 ELSE CHOOSE i \in hits : TRUE

(***************************************************************************)
(* update_margins, auto_indent_bodies, apply_typography_scale              *)
(***************************************************************************)
\* update_margins(fmt): the margins INDENT_MAP gives for property 1001
update_margins(level) == INDENT_MAP(level)

\* the state of the scan of auto_indent_bodies after blocks 1..i:
\* prev_header_level, 0 = None
RECURSIVE prev_header_level(_, _)
prev_header_level(doc, i) ==
    IF i = 0 THEN 0
    ELSE IF doc[i].lvl \in Headings THEN int(doc[i].lvl)
    ELSE IF doc[i].lvl = Body THEN prev_header_level(doc, i - 1)
    ELSE 0

\* INDENT_MAP.get(str(prev_header_level + 1), (0, 0)), (0, 0) without header
body_indent(prev) == IF prev # 0 THEN INDENT_MAP(str(prev + 1)) ELSE <<0, 0>>

auto_indent_bodies(doc) ==
    [i \in 1..Len(doc) |->
        IF doc[i].lvl = Body
        THEN LET m == body_indent(prev_header_level(doc, i - 1))
             IN  [doc[i] EXCEPT !.left = m[1], !.right = m[2]]
        ELSE doc[i]]

\* whether auto_indent_bodies calls cursor.setBlockFormat (a contentsChange)
auto_indent_emits(doc) == \E i \in 1..Len(doc) : doc[i].lvl = Body

\* "if not level: level = 4", then int(level)
scale_level(level) == IF level = NoLevel THEN 4 ELSE int(level)

apply_typography_scale(doc, settings) ==
    [i \in 1..Len(doc) |->
        IF doc[i].len > 0 \/ i > 1
        THEN [doc[i] EXCEPT !.size =
                size_for(TypographyScale(settings.scale_base, settings.scale_ratio),
                         scale_level(doc[i].lvl))]
        ELSE doc[i]]

typography_emits(doc) == \E i \in 1..Len(doc) : doc[i].len > 0 \/ i > 1

(***************************************************************************)
(* Persistence.  The text of a file is modelled by what App.get reads out  *)
(* of it: whether it holds the separator ":::", whether the part before it *)
(* parses as JSON, the keys of the header (Absent when the key is          *)
(* missing), and the blocks its markup describes.                          *)
(***************************************************************************)
AbsentNum == <<0, 0>>    \* a numeric key that the header does not hold
AbsentStr == ""          \* a string key that the header does not hold
AbsentLevel == "absent"  \* a block_states entry without the key "1001"

NoHeader ==
    [scale_base |-> AbsentNum, scale_ratio |-> AbsentNum,
     accent_color |-> AbsentStr, block_states |-> <<>>]

\* doc.toHtml(): the markup keeps every block with its margins, alignment,
\* size, text and character format; property 1001 and userState are not
\* part of the markup
toHtml(doc) ==
    [i \in 1..Len(doc) |->
        [left |-> doc[i].left, right |-> doc[i].right, size |-> doc[i].size,
         align |-> doc[i].align, len |-> doc[i].len, fmt |-> doc[i].fmt]]

\* text_edit.setHtml(html): an empty markup gives the one empty block
setHtml(html) ==
    IF html = <<>> THEN <<EmptyBlock>>
    ELSE [i \in 1..Len(html) |->
            [lvl |-> NoLevel, us |-> -1, left |-> html[i].left,
             right |-> html[i].right, size |-> html[i].size,
             align |-> html[i].align, len |-> html[i].len, fmt |-> html[i].fmt]]

\* blocks_data of store(): one entry per block, in document order
blocks_data_by_index(doc) ==
    [i \in 1..Len(doc) |->
        [pos |-> i - 1, userState |-> doc[i].us, level |-> doc[i].lvl]]

blocks_data(doc) ==
    [i \in 1..Len(doc) |->
        [pos |-> position(doc, i), userState |-> doc[i].us, level |-> doc[i].lvl]]

\* store(path): settings_str + ":::" + html
store(doc, settings) ==
    [sep |-> TRUE, json |-> TRUE,
     hdr |-> [scale_base |-> settings.scale_base,
              scale_ratio |-> settings.scale_ratio,
              accent_color |-> settings.accent_color,
              block_states |-> blocks_data(doc)],
     html |-> toHtml(doc)]

\* the settings that get() parses: {} without separator or on a
\* JSONDecodeError
parsed_settings(raw) == IF raw.sep /\ raw.json THEN raw.hdr ELSE NoHeader

\* settings.get(k, self.settings_dict.get(k)) for the three keys
updated_settings(settings, old) ==
    [scale_base |-> IF settings.scale_base = AbsentNum
                    THEN old.scale_base ELSE settings.scale_base,
     scale_ratio |-> IF settings.scale_ratio = AbsentNum
                     THEN old.scale_ratio ELSE settings.scale_ratio,
     accent_color |-> IF settings.accent_color = AbsentStr
                      THEN old.accent_color ELSE settings.accent_color]

\* b.get('1001', 4)
entry_level(b) == IF b.level = AbsentLevel THEN IntFour ELSE b.level

\* the loop over settings.get("block_states", []): entries 1..n applied in
\* order, each to the block that findBlock(b["pos"]) gives when it is valid
RECURSIVE apply_block_states(_, _, _)
apply_block_states(doc, states, n) ==
    IF n = 0 THEN doc
    ELSE LET d == apply_block_states(doc, states, n - 1)
             b == states[n]
             k == findBlock(d, b.pos)
         IN  IF k = 0 THEN d
             ELSE [d EXCEPT ![k] = [@ EXCEPT !.us = b.userState,
                                             !.lvl = entry_level(b)]]

block_states_emit(doc, states) ==
    \E n \in 1..Len(states) : findBlock(doc, states[n].pos) # 0

\* get(p) of on_file_selection_changed on the text raw of the file, with the settings
\* held before: the document and the settings it leaves, and whether it
\* changed a format of the document (contentsChange, so save() ran)
read_file(raw, old) ==
    LET settings == parsed_settings(raw)
        loaded == setHtml(raw.html)
        new_settings == updated_settings(settings, old)
        stated == apply_block_states(loaded, settings.block_states,
                                     Len(settings.block_states))
        scaled == apply_typography_scale(stated, new_settings)
    IN  [document |-> auto_indent_bodies(scaled),
         settings_dict |-> new_settings,
         emitted |-> \/ block_states_emit(loaded, settings.block_states)
                     \/ typography_emits(stated)
                     \/ auto_indent_emits(scaled)]

(***************************************************************************)
(* The file system.  A path is <<directory, name>>; a name is a sequence   *)
(* of parts, the extension being one part (".grnt" or ".GRNT").  The user  *)
(* data directory holds the documents and one sub-directory; the scratch   *)
(* file ./user/file.grnt lives outside it.                                 *)
(***************************************************************************)
data_path == "data"
SubDir == <<data_path, <<"d">>>>            \* the directory data/d as a path
Dirs == {SubDir}
ScratchPath == <<"./user", <<"file", ".grnt">>>>

\* Path(p).is_dir()
is_dir(p) == p \in Dirs

\* str(Path(p)) of a directory, as the directory part of a path
as_dir(p) == IF p = SubDir THEN "data/d" ELSE p[1]

\* Path(p).parent
parent(p) == p[1]

\* Path(path).write_text(text): creates or replaces the one file
write_text(fsys, path, text) ==
    [q \in (DOMAIN fsys) \cup {path} |-> IF q = path THEN text ELSE fsys[q]]

save_target_scratch(cf) == ScratchPath

\* the file save() stores to
save_target(cf) == IF cf # None /\ ~is_dir(cf) THEN cf ELSE ScratchPath

\* save(): store(current_file) or store("./user/file.grnt")
save(fsys, cf, doc, settings) ==
    write_text(fsys, save_target(cf), store(doc, settings))

(***************************************************************************)
(* The editor: cursor, format state, editing actions.                      *)
(***************************************************************************)
\* text_edit_fmt(): the format at the start of the selection, or the
\* typing format
text_edit_fmt(doc, cur, typing) ==
    IF cur.sel THEN doc[cur.block].fmt ELSE typing

\* update_format_states(): the link button follows the anchor bit of the
\* format under the cursor; then auto_indent_bodies(), whose setBlockFormat
\* calls emit contentsChange, which runs save()
update_format_states(doc, cur, typing) ==
    [link_button |-> text_edit_fmt(doc, cur, typing).anchor,
     document |-> auto_indent_bodies(doc),
     emitted |-> auto_indent_emits(doc)]

\* A content change that left the document d (contentsChange -> save)
\* followed by cursorPositionChanged -> update_format_states.
Edited(d, cur, typing) ==
    LET u == update_format_states(d, cur, typing)
    IN  /\ document' = u.document
        /\ link_button' = u.link_button
        /\ fs' = save(fs, current_file, u.document, settings_dict)

\* the user types one character at the caret; the new character takes the
\* typing format (one run per block: typing into a non-empty block is
\* modelled when the typing format is the format of its text)
TypeChar ==
    /\ ~cursor.sel
    /\ document[cursor.block].len < MaxLen
    /\ document[cursor.block].len = 0 \/ document[cursor.block].fmt = currentCharFormat
    /\ Edited([document EXCEPT ![cursor.block] =
                  [@ EXCEPT !.len = @ + 1, !.fmt = currentCharFormat]],
              cursor, currentCharFormat)
    /\ UNCHANGED <<cursor, currentCharFormat, settings_dict, current_file,
                   selected_dir, selection, last_clicked_index, link_input,
                   pending_link_url, ts, sizes>>

\* QTextEdit.keyPressEvent of Return at the end of block i: a new empty
\* block after i that copies its block format and block character format
insert_block(doc, i, typing) ==
    LET nb == [doc[i] EXCEPT !.us = -1, !.len = 0, !.fmt = typing]
    IN  SubSeq(doc, 1, i) \o <<nb>> \o SubSeq(doc, i + 1, Len(doc))

continue_heading_inherit(doc, k, settings) == doc

\* the body of "if prev_block_fmt.property(1001) in ("1", "2", "3")":
\* block k becomes Body with the Body margins and the Body size
continue_heading(doc, k, settings) ==
    [doc EXCEPT ![k] =
        [@ EXCEPT !.lvl = Body,
                  !.left = update_margins(Body)[1],
                  !.right = update_margins(Body)[2],
                  !.size = size_for(TypographyScale(settings.scale_base,
                                                    settings.scale_ratio), 4)]]

\* LinkableTextEdit.keyPressEvent for Key_Return / Key_Enter
keyPressEvent ==
    /\ ~cursor.sel
    /\ Len(document) < MaxBlocks
    /\ LET i == cursor.block
           inserted == insert_block(document, i, currentCharFormat)
           moved == [block |-> i + 1, sel |-> FALSE]
           u == update_format_states(inserted, moved, currentCharFormat)
           final == IF u.document[i].lvl \in Headings
                    THEN continue_heading(u.document, i + 1, settings_dict)
                    ELSE u.document
       IN  /\ document' = final
           /\ cursor' = moved
           /\ link_button' = u.link_button
           /\ fs' = save(fs, current_file, final, settings_dict)
    /\ UNCHANGED <<currentCharFormat, settings_dict, current_file, selected_dir,
                   selection, last_clicked_index, link_input, pending_link_url,
                   ts, sizes>>

\* format_action(block=True) around a function that sets property 1001 and
\* calls update_margins: mergeBlockFormat on the cursor's block, the size
\* of the level on its block character format, then update_format_states
set_level(doc, i, level, settings) ==
    [doc EXCEPT ![i] =
        [@ EXCEPT !.lvl = level,
                  !.left = update_margins(level)[1],
                  !.right = update_margins(level)[2],
                  !.size = size_for(TypographyScale(settings.scale_base,
                                                    settings.scale_ratio),
                                    int(level))]]

format_action_level(level) ==
    /\ Edited(set_level(document, cursor.block, level, settings_dict),
              cursor, currentCharFormat)
    /\ UNCHANGED <<cursor, currentCharFormat, settings_dict, current_file,
                   selected_dir, selection, last_clicked_index, link_input,
                   pending_link_url, ts, sizes>>

apply_h1 == format_action_level(H1)
apply_h2 == format_action_level(H2)
apply_h3 == format_action_level(H3)
apply_body == format_action_level(Body)

\* format_action(block=True) around align_left: the fresh QTextBlockFormat
\* has no property 1001, so update_margins gives it the margins
\* INDENT_MAP.get(None, (0, 0)); the merge sets alignment and margins of
\* the cursor's block, no size follows ("if level:"), then
\* update_format_states
align_left ==
    /\ Edited([document EXCEPT ![cursor.block] =
                  [@ EXCEPT !.align = "left",
                            !.left = update_margins(NoLevel)[1],
                            !.right = update_margins(NoLevel)[2]]],
              cursor, currentCharFormat)
    /\ UNCHANGED <<cursor, currentCharFormat, settings_dict, current_file,
                   selected_dir, selection, last_clicked_index, link_input,
                   pending_link_url, ts, sizes>>

\* format_action(block=True) around a function that only sets the
\* alignment
format_action_alignment(alignment) ==
    /\ Edited([document EXCEPT ![cursor.block] = [@ EXCEPT !.align = alignment]],
              cursor, currentCharFormat)
    /\ UNCHANGED <<cursor, currentCharFormat, settings_dict, current_file,
                   selected_dir, selection, last_clicked_index, link_input,
                   pending_link_url, ts, sizes>>

align_center == format_action_alignment("center")
align_right == format_action_alignment("right")

\* on_selection_changed(): with the link button checked, the URL box shows
\* the href under the cursor
on_selection_changed(button, input, fmt) ==
    IF button THEN [input EXCEPT !.text = fmt.href] ELSE input

\* The user moves the caret to block i, or selects the text of block i.
\* The typing format follows the caret.  Qt emits cursorPositionChanged
\* (-> update_format_states) and, when the selection changed,
\* selectionChanged (-> on_selection_changed); which comes first depends on
\* the way the cursor was moved (mouse, key, setTextCursor).
MoveCursor ==
    \E i \in 1..Len(document), sel \in BOOLEAN, cursor_first \in BOOLEAN :
        LET moved == [block |-> i, sel |-> sel]
            typing == document[i].fmt
            fmt == text_edit_fmt(document, moved, typing)
            u == update_format_states(document, moved, typing)
            sel_changed == cursor.sel \/ sel
            button == IF cursor_first THEN u.link_button ELSE link_button
        IN  /\ moved # cursor
            /\ sel => document[i].len > 0
            /\ cursor' = moved
            /\ currentCharFormat' = typing
            /\ document' = u.document
            /\ link_button' = u.link_button
            /\ link_input' = IF sel_changed
                             THEN on_selection_changed(button, link_input, fmt)
                             ELSE link_input
            /\ fs' = IF u.emitted
                     THEN save(fs, current_file, u.document, settings_dict)
                     ELSE fs
            /\ UNCHANGED <<settings_dict, current_file, selected_dir, selection,
                           last_clicked_index, pending_link_url, ts, sizes>>

(***************************************************************************)
(* Files found on disk when the program starts (written by hand, by        *)
(* another version, or by this program under other settings).              *)
(***************************************************************************)
HtmlBlock(len, left, size) ==
    [left |-> left, right |-> left, size |-> size, align |-> "left",
     len |-> len, fmt |-> PlainCharFormat]

\* an empty file
EmptyFile == [sep |-> FALSE, json |-> FALSE, hdr |-> NoHeader, html |-> <<>>]

\* "<p>hi</p>": markup without header
PlainFile ==
    [sep |-> FALSE, json |-> FALSE, hdr |-> NoHeader,
     html |-> <<HtmlBlock(MaxLen, 0, DefaultPointSize)>>]

\* "not-json:::<p>hi</p>"
MalformedFile ==
    [sep |-> TRUE, json |-> FALSE, hdr |-> NoHeader,
     html |-> <<HtmlBlock(MaxLen, 0, DefaultPointSize)>>]

\* a document this program saved under other settings: a heading that
\* carries a userState, and a Body block
OtherSettings ==
    [accent_color |-> "#336699", scale_ratio |-> <<3, 2>>, scale_base |-> <<16, 1>>]

SavedFile ==
    [sep |-> TRUE, json |-> TRUE,
     hdr |-> [scale_base |-> OtherSettings.scale_base,
              scale_ratio |-> OtherSettings.scale_ratio,
              accent_color |-> OtherSettings.accent_color,
              block_states |->
                  <<[pos |-> 0, userState |-> 7, level |-> H2],
                    [pos |-> MaxLen + 1, userState |-> -1, level |-> Body]>>],
     html |-> <<HtmlBlock(MaxLen, 10, 24), HtmlBlock(0, 20, 16)>>]

\* a header without settings whose only block_states entry has no "1001",
\* and a second block without entry
LegacyFile ==
    [sep |-> TRUE, json |-> TRUE,
     hdr |-> [scale_base |-> AbsentNum, scale_ratio |-> AbsentNum,
              accent_color |-> AbsentStr,
              block_states |-> <<[pos |-> 0, userState |-> 3, level |-> AbsentLevel]>>],
     html |-> <<HtmlBlock(0, 0, DefaultPointSize), HtmlBlock(MaxLen, 0, DefaultPointSize)>>]

\* a document saved under a scale so flat that rounding levels it out
FlatSettings ==
    [accent_color |-> "#c7795f", scale_ratio |-> <<101, 100>>, scale_base |-> <<12, 1>>]

FlatFile ==
    [sep |-> TRUE, json |-> TRUE,
     hdr |-> [scale_base |-> FlatSettings.scale_base,
              scale_ratio |-> FlatSettings.scale_ratio,
              accent_color |-> FlatSettings.accent_color,
              block_states |-> <<[pos |-> 0, userState |-> -1, level |-> H1]>>],
     html |-> <<HtmlBlock(0, 0, 12)>>]

\* a document saved after apply_h2 and align_left: the markup of the
\* heading carries the margins 0
AlignedFile ==
    [sep |-> TRUE, json |-> TRUE,
     hdr |-> [scale_base |-> DefaultSettings.scale_base,
              scale_ratio |-> DefaultSettings.scale_ratio,
              accent_color |-> DefaultSettings.accent_color,
              block_states |-> <<[pos |-> 0, userState |-> -1, level |-> H2]>>],
     html |-> <<HtmlBlock(MaxLen, 0, 19)>>]

FilesOnDisk == {EmptyFile, PlainFile, MalformedFile, SavedFile, LegacyFile, FlatFile}

(***************************************************************************)
(* The file tree.  Its handlers run one after the other inside one user    *)
(* action, so each is a function on the record of the variables they       *)
(* touch.                                                                  *)
(***************************************************************************)
App ==
    [document |-> document, cursor |-> cursor,
     currentCharFormat |-> currentCharFormat, settings_dict |-> settings_dict,
     current_file |-> current_file, selected_dir |-> selected_dir,
     selection |-> selection, last_clicked_index |-> last_clicked_index,
     fs |-> fs, link_button |-> link_button, link_input |-> link_input,
     pending_link_url |-> pending_link_url]

Becomes(st) ==
    /\ document' = st.document
    /\ cursor' = st.cursor
    /\ currentCharFormat' = st.currentCharFormat
    /\ settings_dict' = st.settings_dict
    /\ current_file' = st.current_file
    /\ selected_dir' = st.selected_dir
    /\ selection' = st.selection
    /\ last_clicked_index' = st.last_clicked_index
    /\ fs' = st.fs
    /\ link_button' = st.link_button
    /\ link_input' = st.link_input
    /\ pending_link_url' = st.pending_link_url

\* get(p): current_file = p, read the file, setHtml (the caret goes to the
\* start of the new document; Qt emits selectionChanged when a selection
\* was lost, then cursorPositionChanged), the settings, the block states,
\* the scale and the indent scan.  Every format change on the way emits
\* contentsChange, so save() has stored the final document in p.
get(st, p) ==
    LET r == read_file(st.fs[p], st.settings_dict)
        typing == r.document[1].fmt
    IN  [st EXCEPT
            !.current_file = p,
            !.document = r.document,
            !.settings_dict = r.settings_dict,
            !.cursor = [block |-> 1, sel |-> FALSE],
            !.currentCharFormat = typing,
            !.link_input = IF st.cursor.sel
                           THEN on_selection_changed(st.link_button, @, typing)
                           ELSE @,
            !.link_button = typing.anchor,
            !.fs = IF r.emitted
                   THEN save(@, p, r.document, r.settings_dict)
                   ELSE @]

\* on_file_selection_changed()
on_file_selection_changed(st) ==
    IF st.selection = None
    THEN [get(st, ScratchPath) EXCEPT !.current_file = None]
    ELSE IF is_dir(st.selection) THEN [st EXCEPT !.current_file = st.selection]
    ELSE get(st, st.selection)

\* update_selected_dir() of App.__init__
update_selected_dir(st) ==
    [st EXCEPT !.selected_dir =
        IF st.current_file # None
        THEN IF is_dir(st.current_file) THEN as_dir(st.current_file)
             ELSE parent(st.current_file)
        ELSE data_path]

\* selectionModel().selectionChanged: the two slots in connection order
selectionChanged(st) == update_selected_dir(on_file_selection_changed(st))

\* the selection of the tree becomes index (None: clearSelection)
select(st, index) ==
    IF st.selection = index THEN st
    ELSE selectionChanged([st EXCEPT !.selection = index])

\* _toggle_tree_selection(index), the slot of tree_view.clicked
toggle_tree_selection(st, index) ==
    IF st.last_clicked_index = index
    THEN [select(st, None) EXCEPT !.last_clicked_index = None]
    ELSE [st EXCEPT !.last_clicked_index = index]

\* what the tree shows: the documents and directories under data_path
TreeFiles(fsys) == (DOMAIN fsys) \ {ScratchPath}
TreeItems(fsys) == TreeFiles(fsys) \cup Dirs

\* a mouse click on a tree item: the view selects it, then emits clicked
Click ==
    /\ \E index \in TreeItems(fs) :
          Becomes(toggle_tree_selection(select(App, index), index))
    /\ UNCHANGED <<ts, sizes>>

(***************************************************************************)
(* Names: rename (GraniteFileSystemModel.setData) and create_new_file.     *)
(***************************************************************************)
NameInputs == {<<"b">>, <<"c", ".GRNT">>}

\* str.lower(), part by part
lower(name) == [k \in 1..Len(name) |-> IF name[k] = ".GRNT" THEN ".grnt" ELSE name[k]]

\* str.endswith(".grnt")
endswith_grnt(name) == name # <<>> /\ name[Len(name)] = ".grnt"

\* new_path of setData: the extension is appended unless the name ends
\* with it in any case
new_path(old_path, value) ==
    <<parent(old_path),
      IF endswith_grnt(lower(value)) THEN value ELSE Append(value, ".grnt")>>

\* QFileSystemModel.setData -> rename of the file
move(fsys, old_path, to) ==
    [q \in ((DOMAIN fsys) \ {old_path}) \cup {to} |->
        IF q = to THEN fsys[old_path] ELSE fsys[q]]

rename_clobbering(fsys, old_path, value) ==
    LET to == new_path(old_path, value)
    IN  IF <<to[1], lower(to[2])>> = <<old_path[1], lower(old_path[2])>>
        THEN [ok |-> FALSE, fs |-> fsys]
        ELSE [ok |-> TRUE, fs |-> move(fsys, old_path, to)]

\* setData(index, value, EditRole): the returned flag and the file system
rename(fsys, old_path, value) ==
    LET to == new_path(old_path, value)
    IN  IF <<to[1], lower(to[2])>> = <<old_path[1], lower(old_path[2])>>
        THEN [ok |-> FALSE, fs |-> fsys]
        ELSE IF to \in DOMAIN fsys \/ is_dir(to)
        THEN [ok |-> FALSE, fs |-> fsys]
        ELSE [ok |-> TRUE, fs |-> move(fsys, old_path, to)]

\* The user edits the name of a file in the tree.  The item keeps its
\* place in the selection under its new name; no selectionChanged is
\* emitted, so current_file keeps the old path.
setData ==
    /\ \E index \in TreeFiles(fs), value \in NameInputs :
          LET r == rename(fs, index, value)
              to == new_path(index, value)
          IN  /\ fs' = r.fs
              /\ selection' = IF r.ok /\ selection = index THEN to ELSE selection
              /\ last_clicked_index' = IF r.ok /\ last_clicked_index = index
                                       THEN to ELSE last_clicked_index
    /\ UNCHANGED <<document, cursor, currentCharFormat, settings_dict,
                   current_file, selected_dir, link_button, link_input,
                   pending_link_url, ts, sizes>>

\* create_new_file() with the text of the file toolbar's line edit:
\* open(p, 'w') creates or truncates p; with no current file p gets the
\* bytes of the scratch file; then the tree selects p
create(st, text) ==
    LET p == <<st.selected_dir, IF endswith_grnt(text) THEN text ELSE Append(text, ".grnt")>>
        opened == write_text(st.fs, p, EmptyFile)
        written == IF st.current_file = None
                   THEN write_text(opened, p, opened[ScratchPath])
                   ELSE opened
    IN  select([st EXCEPT !.fs = written], p)

create_new_file ==
    /\ \E text \in NameInputs :
          LET st == create(App, text)
          IN  /\ Cardinality(TreeFiles(st.fs)) <= MaxFiles
              /\ Becomes(st)
    /\ UNCHANGED <<ts, sizes>>

(***************************************************************************)
(* Links and inline formats.  The link button is checkable; the URL box    *)
(* (link_input) is shown while the mouse is over the button and hidden     *)
(* when a URL is entered.                                                  *)
(***************************************************************************)
\* what the user may leave in the URL box
UrlInputs == {<<>>, <<" ">>, <<"u">>, <<" ", "v", " ">>}

reverse(s) == [i \in 1..Len(s) |-> s[Len(s) + 1 - i]]

RECURSIVE lstrip(_)
lstrip(s) == IF s # <<>> /\ Head(s) = " " THEN lstrip(Tail(s)) ELSE s

\* str.strip()
strip(s) == reverse(lstrip(reverse(lstrip(s))))

\* QTextCharFormat.merge: the properties set in the modifier replace those
\* of the format
merge(fmt, modifier) ==
    [p \in DOMAIN fmt |-> IF p \in DOMAIN modifier THEN modifier[p] ELSE fmt[p]]

\* "if cursor.hasSelection(): cursor.mergeCharFormat(fmt) else:
\* self.text_edit.mergeCurrentCharFormat(fmt)", then update_format_states().
\* Merging into the selection is a content change (-> save); the typing
\* format is the format at the cursor.
merge_char_format(st, modifier) ==
    LET b == st.cursor.block
        doc == IF st.cursor.sel
               THEN [st.document EXCEPT ![b] =
                        [@ EXCEPT !.fmt = merge(@, modifier)]]
               ELSE st.document
        typing == IF st.cursor.sel THEN doc[b].fmt
                  ELSE merge(st.currentCharFormat, modifier)
        u == update_format_states(doc, st.cursor, typing)
    IN  [st EXCEPT !.document = u.document,
                   !.currentCharFormat = typing,
                   !.link_button = u.link_button,
                   !.fs = IF st.cursor.sel \/ u.emitted
                          THEN save(@, st.current_file, u.document,
                                    st.settings_dict)
                          ELSE @]

\* the format _apply_or_remove_link builds in its two branches
link_fmt(st, checked) ==
    IF checked
    THEN [anchor |-> TRUE, href |-> st.pending_link_url, underline |-> TRUE,
          fg |-> st.settings_dict.accent_color]
    ELSE [anchor |-> FALSE, href |-> <<>>, underline |-> FALSE,
          fg |-> PaletteText]

apply_or_remove_link_unguarded(st, checked) ==
    merge_char_format(st, link_fmt(st, checked))

\* _apply_or_remove_link(checked): without a pending URL a request to link
\* only shows the URL box
apply_or_remove_link(st, checked) ==
    IF checked /\ st.pending_link_url = <<>>
    THEN [st EXCEPT !.link_input = [@ EXCEPT !.visible = TRUE]]
    ELSE merge_char_format(st, link_fmt(st, checked))

\* _on_link_entered()
on_link_entered(st) ==
    LET url == strip(st.link_input.text)
        entered == [st EXCEPT !.pending_link_url = url,
                              !.link_input = [@ EXCEPT !.visible = FALSE]]
    IN  IF entered.link_button THEN apply_or_remove_link(entered, TRUE)
        ELSE entered

\* link_button.clicked: the checkable button toggles, then
\* _apply_or_remove_link(checked)
clicked(st) ==
    apply_or_remove_link([st EXCEPT !.link_button = ~@], ~st.link_button)

link_button_clicked ==
    /\ Becomes(clicked(App))
    /\ UNCHANGED <<ts, sizes>>

\* eventFilter: QEvent.Enter on the link button shows the URL box
eventFilter_Enter ==
    /\ ~link_input.visible
    /\ link_input' = [link_input EXCEPT !.visible = TRUE]
    /\ UNCHANGED <<document, cursor, currentCharFormat, settings_dict,
                   current_file, selected_dir, selection, last_clicked_index,
                   fs, link_button, pending_link_url, ts, sizes>>

\* the user edits the text of the URL box
textEdited ==
    /\ link_input.visible
    /\ \E t \in UrlInputs :
          /\ t # link_input.text
          /\ link_input' = [link_input EXCEPT !.text = t]
    /\ UNCHANGED <<document, cursor, currentCharFormat, settings_dict,
                   current_file, selected_dir, selection, last_clicked_index,
                   fs, link_button, pending_link_url, ts, sizes>>

\* link_input.editingFinished, or QEvent.Leave on the link button:
\* _on_link_entered()
editingFinished ==
    /\ Becomes(on_link_entered(App))
    /\ UNCHANGED <<ts, sizes>>

\* format_action (inline) around toggle_underline
toggle_underline ==
    /\ \E checked \in BOOLEAN :
          Becomes(merge_char_format(App, [underline |-> checked]))
    /\ UNCHANGED <<ts, sizes>>

\* format_action (inline) around toggle_colored_text
toggle_colored_text ==
    /\ \E checked \in BOOLEAN :
          Becomes(merge_char_format(App,
                     [fg |-> IF checked THEN settings_dict.accent_color
                             ELSE PaletteText]))
    /\ UNCHANGED <<ts, sizes>>

(***************************************************************************)
(* App.__init__: with nothing selected, on_file_selection_changed() loads  *)
(* the scratch file and leaves current_file None; then save() and          *)
(* update_selected_dir().                                                  *)
(***************************************************************************)
Constructed(fs0) ==
    [document |-> <<[EmptyBlock EXCEPT !.lvl = Body]>>,
     cursor |-> [block |-> 1, sel |-> FALSE],
     currentCharFormat |-> PlainCharFormat,
     settings_dict |-> DefaultSettings,
     current_file |-> None, selected_dir |-> None, selection |-> None,
     last_clicked_index |-> None, fs |-> fs0, link_button |-> FALSE,
     link_input |-> [text |-> <<>>, visible |-> FALSE],
     pending_link_url |-> <<>>]

started(fs0) ==
    LET st == on_file_selection_changed(Constructed(fs0))
    IN  update_selected_dir(
            [st EXCEPT !.fs = save(@, st.current_file, st.document, st.settings_dict)])

Is(st) ==
    /\ document = st.document
    /\ cursor = st.cursor
    /\ currentCharFormat = st.currentCharFormat
    /\ settings_dict = st.settings_dict
    /\ current_file = st.current_file
    /\ selected_dir = st.selected_dir
    /\ selection = st.selection
    /\ last_clicked_index = st.last_clicked_index
    /\ fs = st.fs
    /\ link_button = st.link_button
    /\ link_input = st.link_input
    /\ pending_link_url = st.pending_link_url

\* no TypographyScale has been asked for a size
ScaleIdle ==
    /\ ts = TypographyScale(DefaultSettings.scale_base, DefaultSettings.scale_ratio)
    /\ sizes = [l \in 1..4 |-> -1]

FileA == <<data_path, <<"a", ".grnt">>>>
FileB == <<data_path, <<"b", ".grnt">>>>

\* the scratch file as the program itself left it: one empty Body block
OwnScratch == store(<<[EmptyBlock EXCEPT !.lvl = Body]>>, DefaultSettings)

(***************************************************************************)
(* Specification SpecEdit: editing one document.  The program has started  *)
(* on any scratch file and the user has either selected nothing, or the    *)
(* document a.grnt, or the directory d.                                    *)
(***************************************************************************)
InitEdit ==
    /\ \E c \in FilesOnDisk, index \in {None, FileA, SubDir} :
          LET st == started([q \in {ScratchPath, FileA} |-> c])
          IN  Is(IF index = None THEN st
                 ELSE toggle_tree_selection(select(st, index), index))
    /\ ScaleIdle

NextEdit ==
    \/ TypeChar
    \/ keyPressEvent
    \/ MoveCursor
    \/ apply_h1
    \/ apply_h2
    \/ apply_h3
    \/ apply_body

SpecEdit == InitEdit /\ [][NextEdit]_vars

(***************************************************************************)
(* Specification SpecFiles: the file tree.  The program starts on its own  *)
(* scratch file; the data directory holds a.grnt and b.grnt.               *)
(***************************************************************************)
InitFiles ==
    /\ \E a \in {SavedFile, FlatFile, AlignedFile}, b \in {MalformedFile, LegacyFile} :
          Is(started((ScratchPath :> OwnScratch) @@ (FileA :> a) @@ (FileB :> b)))
    /\ ScaleIdle

NextFiles ==
    \/ Click
    \/ TypeChar
    \/ MoveCursor
    \/ apply_h2

SpecFiles == InitFiles /\ [][NextFiles]_vars

NextNames ==
    \/ Click
    \/ setData
    \/ create_new_file

SpecNames == InitFiles /\ [][NextNames]_vars

(***************************************************************************)
(* Specification SpecLink: links and inline formats on the one paragraph   *)
(* of the scratch document.                                                *)
(***************************************************************************)
InitLink ==
    /\ \E c \in {OwnScratch, PlainFile} : Is(started([q \in {ScratchPath} |-> c]))
    /\ ScaleIdle

NextLink ==
    \/ TypeChar
    \/ MoveCursor
    \/ link_button_clicked
    \/ eventFilter_Enter
    \/ textEdited
    \/ editingFinished
    \/ toggle_underline
    \/ toggle_colored_text

SpecLink == InitLink /\ [][NextLink]_vars

(***************************************************************************)
(* Specification SpecAlign: alignment of the blocks of the scratch         *)
(* document, which holds nothing or a heading and a Body block.            *)
(***************************************************************************)
InitAlign ==
    /\ \E c \in {OwnScratch, SavedFile} : Is(started([q \in {ScratchPath} |-> c]))
    /\ ScaleIdle

NextAlign ==
    \/ align_left
    \/ align_center
    \/ align_right
    \/ apply_h2
    \/ apply_body
    \/ keyPressEvent
    \/ MoveCursor

SpecAlign == InitAlign /\ [][NextAlign]_vars

(***************************************************************************)
(* The typography scale on its own: a TypographyScale of any base > 0 and  *)
(* any ratio > 1 of the bounded sets, asked for the size of each level.    *)
(***************************************************************************)
ScaleBases == {<<n, d>> : n \in 1..MaxBase, d \in {1, 2}}
ScaleRatios == {<<d + k, d>> : d \in {1, 4, 10}, k \in 1..MaxStep}

InitScale ==
    /\ Is(started([q \in {ScratchPath} |-> OwnScratch]))
    /\ \E b \in ScaleBases, r \in ScaleRatios : ts = TypographyScale(b, r)
    /\ sizes = [l \in 1..4 |-> -1]

\* a call of ts.size_for(level)
SizeFor ==
    /\ \E level \in 1..4 : sizes' = [sizes EXCEPT ![level] = size_for(ts, level)]
    /\ UNCHANGED <<document, cursor, currentCharFormat, settings_dict,
                   current_file, selected_dir, selection, last_clicked_index,
                   fs, link_button, link_input, pending_link_url, ts>>

NextScale == SizeFor

SpecScale == InitScale /\ [][NextScale]_vars

AllSizesAsked == \A l \in 1..4 : sizes[l] # -1

\* base * ratio^(4-l) - base * ratio^(4-(l+1)) > 1, in exact arithmetic
UnroundedGapOverOne(l) ==
    ts.base_size[1] * Pow(ts.ratio[1], 3 - l) * (ts.ratio[1] - ts.ratio[2])
        > ts.base_size[2] * Pow(ts.ratio[2], 4 - l)

\* C9 as stated: for every base > 0 and ratio > 1 the sizes of the levels
\* 1, 2, 3, 4 are strictly decreasing.
C9_StrictlyDecreasing ==
    AllSizesAsked =>
        /\ sizes[1] > sizes[2]
        /\ sizes[2] > sizes[3]
        /\ sizes[3] > sizes[4]

\* C9 amended: for every base > 0 and ratio > 1 the sizes of the levels
\* 1, 2, 3, 4 never increase, and two neighbouring levels get different
\* sizes whenever their unrounded sizes differ by more than 1.
C9_NonIncreasing ==
    AllSizesAsked =>
        \A l \in 1..3 :
            /\ sizes[l] >= sizes[l + 1]
            /\ UnroundedGapOverOne(l) => sizes[l] > sizes[l + 1]

\* all four sizes were asked of a scale that separates them and of one
\* that levels two of them
C9_Witness ==
    /\ AllSizesAsked
    /\ sizes[1] > sizes[2]
    /\ sizes[3] = sizes[4]
    /\ UnroundedGapOverOne(1)

(***************************************************************************)
(* Persistence claims.                                                     *)
(***************************************************************************)
LevelsAreTags(doc) == \A i \in 1..Len(doc) : doc[i].lvl \in Tags

\* C1: for the document and the settings of every reachable state whose
\* blocks all have a level in {H1, H2, H3, Body}: reading back what save()
\* stores, whatever the settings held when the file is reopened, gives the
\* same number of blocks with the same level and userState per block, and
\* the same scaleBase, scaleRatio and accentColor.
C1_RoundTrip ==
    LevelsAreTags(document) =>
        \A old \in {DefaultSettings, OtherSettings, FlatSettings} :
            LET r == read_file(store(document, settings_dict), old)
            IN  /\ Len(r.document) = Len(document)
                /\ \A i \in 1..Len(document) :
                      /\ r.document[i].lvl = document[i].lvl
                      /\ r.document[i].us = document[i].us
                /\ r.settings_dict = settings_dict

\* an open document under non-default settings, with text in front of a
\* second block, a heading and a userState, as save() has stored it
C1_Witness ==
    /\ current_file = FileA
    /\ LevelsAreTags(document)
    /\ Len(document) >= 2
    /\ document[1].len > 0
    /\ \E i \in 1..Len(document) : document[i].lvl \in Headings /\ document[i].us = 7
    /\ document[2].lvl = H2
    /\ settings_dict = OtherSettings
    /\ fs[FileA] = store(document, settings_dict)

\* C4 as stated: in every state the program reaches by opening documents,
\* opening a file whose header does not parse leaves the settings equal to
\* the default settings.
C4_MalformedGivesDefaults ==
    \A p \in TreeFiles(fs) :
        (fs[p].sep /\ ~fs[p].json) => get(App, p).settings_dict = DefaultSettings

\* C10 as stated: the level of every block of the document is one of the
\* tags "1", "2", "3", "4", never None.
C10_LevelsAreTags == LevelsAreTags(document)

(***************************************************************************)
(* Indent and heading continuation claims.                                 *)
(***************************************************************************)
\* the nearest heading block before block i, 0 when there is none
NearestHeading(doc, i) ==
    LET hs == {j \in 1..(i - 1) : doc[j].lvl \in Headings}
    IN  IF hs = {} THEN 0 ELSE CHOOSE j \in hs : \A k \in hs : k <= j

\* C2 as stated: after the indent scan every Body block has the margins of
\* the indent table entry of the nearest preceding heading (H1 (0,0),
\* H2 (10,10), H3 (20,20)), and (0,0) when no heading precedes it.
C2_BodyTakesHeadingIndent ==
    LET d == auto_indent_bodies(document)
    IN  \A i \in 1..Len(d) :
            d[i].lvl = Body =>
                <<d[i].left, d[i].right>> =
                    IF NearestHeading(d, i) = 0 THEN <<0, 0>>
                    ELSE INDENT_MAP(d[NearestHeading(d, i)].lvl)

\* a paragraph break pressed at the end of a heading block
BreakAfterHeading == keyPressEvent /\ document[cursor.block].lvl \in Headings

BodySize == size_for(TypographyScale(settings_dict.scale_base, settings_dict.scale_ratio), 4)

ContentMutation ==
    \/ TypeChar
    \/ keyPressEvent
    \/ apply_h1
    \/ apply_h2
    \/ apply_h3
    \/ apply_body

\* a document is active: a file of the tree is the current file
ActiveDocument == current_file # None /\ current_file \notin Dirs

\* C8: every content mutation leaves the encoded document in the current
\* file when a document is active and in the scratch file otherwise, and
\* neither creates nor changes any other file.
C8_SaveTarget ==
    [][ContentMutation =>
        LET target == IF ActiveDocument THEN current_file ELSE ScratchPath
        IN  /\ fs'[target] = store(document', settings_dict')
            /\ \A q \in (DOMAIN fs') \ {target} : q \in DOMAIN fs /\ fs'[q] = fs[q]]_vars

\* an edit of the open document a.grnt went to a.grnt and not to the
\* scratch file
C8_Witness ==
    /\ ActiveDocument
    /\ Len(document) > 1
    /\ document[2].lvl = H3
    /\ fs[current_file] = store(document, settings_dict)
    /\ fs[ScratchPath] # fs[current_file]

(***************************************************************************)
(* Rename.                                                                 *)
(***************************************************************************)
\* C7: renaming a file A to a name that, with the extension appended when
\* it is absent, is the name of an existing file B fails, and leaves every
\* file, A and B included, where it is and as it is.
C7_RenameCollision ==
    \A A \in TreeFiles(fs), value \in NameInputs :
        LET B == new_path(A, value)
        IN  (B \in DOMAIN fs /\ B # A) =>
                /\ ~rename(fs, A, value).ok
                /\ rename(fs, A, value).fs = fs

\* a.grnt has been renamed to c.GRNT, and renaming it to "b" would collide
\* with b.grnt
C7_Witness ==
    /\ <<data_path, <<"c", ".GRNT">>>> \in DOMAIN fs
    /\ FileA \notin DOMAIN fs
    /\ new_path(<<data_path, <<"c", ".GRNT">>>>, <<"b">>) = FileB
    /\ FileB \in DOMAIN fs

(***************************************************************************)
(* Links.                                                                  *)
(***************************************************************************)
\* the attributes of every run and of the typing format
RunAttributes ==
    <<[i \in 1..Len(document) |-> document[i].fmt], currentCharFormat>>

\* link mode requested, no pending URL
AwaitingUrl == link_button /\ pending_link_url = <<>>

\* C3: for a selected run that is not a link, with any underline and any
\* foreground, requesting a link, entering a non-empty URL and then
\* removing the link leaves the run's underline and foreground as they
\* were before the link was applied.
C3_RemovalRestoresSnapshot ==
    \A t \in UrlInputs :
        LET b == cursor.block
            requested == clicked(App)
            applied == on_link_entered(
                           [requested EXCEPT !.link_input = [@ EXCEPT !.text = t]])
            removed == clicked(applied)
        IN  (/\ cursor.sel
             /\ ~document[b].fmt.anchor
             /\ ~link_button
             /\ strip(t) # <<>>)
            => /\ applied.document[b].fmt.anchor
               /\ ~removed.document[b].fmt.anchor
               /\ removed.document[b].fmt.underline = document[b].fmt.underline
               /\ removed.document[b].fmt.fg = document[b].fmt.fg

\* C6: while a link is requested and no URL is pending, entering an empty
\* or white-space URL leaves the link requested with no URL pending and
\* changes no attribute of any run nor of the typing format.
C6_EmptyUrlIsNoOp ==
    [][(AwaitingUrl /\ strip(link_input.text) = <<>> /\ editingFinished)
          => (AwaitingUrl' /\ RunAttributes' = RunAttributes)]_vars

\* a white-space URL is in the re-shown URL box of a document that has a
\* link-free run, while the link is still requested
C6_Witness ==
    /\ AwaitingUrl
    /\ link_input = [text |-> <<" ">>, visible |-> TRUE]
    /\ \E i \in 1..Len(document) : document[i].len > 0 /\ ~document[i].fmt.anchor

(***************************************************************************)
(* Derived attributes.                                                     *)
(***************************************************************************)
\* the size of every block of doc is size_for(its level) under settings
SizesDerived(doc, settings) ==
    \A i \in 1..Len(doc) :
        doc[i].size = size_for(TypographyScale(settings.scale_base,
                                               settings.scale_ratio),
                               scale_level(doc[i].lvl))

\* the margins of every heading are those of its level, the margins of
\* every Body block those the indent scan gives it
MarginsDerived(doc) ==
    \A i \in 1..Len(doc) :
        /\ doc[i].lvl \in Headings =>
              <<doc[i].left, doc[i].right>> = update_margins(doc[i].lvl)
        /\ doc[i].lvl = Body =>
              <<doc[i].left, doc[i].right>> =
                  body_indent(prev_header_level(doc, i - 1))

\* C11: after opening any file of the tree, every block's size is
\* size_for(its level) under the loaded scale and every block's margins,
\* of headings as of Body blocks, are those derived from the loaded levels,
\* whatever the markup of the file carried.
C11_RederivedOnLoad ==
    \A p \in TreeFiles(fs) :
        LET opened == get(App, p)
        IN  /\ SizesDerived(opened.document, opened.settings_dict)
            /\ MarginsDerived(opened.document)

\* C12: when apply_h1, apply_h2, apply_h3, apply_body or a paragraph break
\* returns, every Body block of the document has the margins a fresh
\* indent scan over the block levels gives it.
C12_IndentConsistentAfterEdit ==
    [][(apply_h1 \/ apply_h2 \/ apply_h3 \/ apply_body \/ keyPressEvent)
          => auto_indent_bodies(document') = document']_vars

\* C13: with a link on the selection and the URL box edited to another,
\* non-empty URL, a click on the checked link button does not remove the
\* link: once the click is handled, or at the latest when the mouse has
\* left the button, the selection is an anchor whose href is the new URL.
C13_EditInPlace ==
    \A t \in UrlInputs :
        LET b == cursor.block
            edited == [App EXCEPT !.link_input = [@ EXCEPT !.text = t]]
            removed == clicked(edited)
            left == on_link_entered(removed)
            Relinked(st) == /\ st.document[b].fmt.anchor
                            /\ st.document[b].fmt.href = strip(t)
        IN  (/\ cursor.sel
             /\ link_button
             /\ document[b].fmt.anchor
             /\ strip(t) # <<>>
             /\ strip(t) # document[b].fmt.href)
            => (Relinked(removed) \/ Relinked(left))

\* C14: whenever the selection changes to a range that holds no anchor,
\* the link button ends up unchecked and the text of the URL box empty,
\* whichever of on_selection_changed and update_format_states ran first.
C14_SelectionChangeCollapses ==
    [][(/\ MoveCursor
        /\ cursor.sel \/ cursor'.sel
        /\ ~text_edit_fmt(document', cursor', currentCharFormat').anchor)
          => (~link_button' /\ link_input'.text = <<>>)]_vars

\* the level, size and margins of every block
Layout(doc) ==
    [i \in 1..Len(doc) |-> <<doc[i].lvl, doc[i].size, doc[i].left, doc[i].right>>]

\* C15: align_left, align_center and align_right leave the level, the size
\* and both margins of every block as they were.
C15_AlignmentOnly ==
    [][(align_left \/ align_center \/ align_right)
          => Layout(document') = Layout(document)]_vars

\* C16: the file save() writes is the file whose contents were loaded into
\* the editor last: whenever a step changes the file save() writes to, the
\* document after the step is what loading that file gives.
C16_SaveTargetIsLoadedFile ==
    [][save_target(current_file') # save_target(current_file)
          => document' = read_file(fs[save_target(current_file')],
                                   settings_dict).document]_vars

\* C17: create_new_file with a name that, with the extension appended when
\* it is absent, is the name of an existing document of the selected
\* directory leaves the contents of that document as they were.
C17_CreateNeverClobbers ==
    \A text \in NameInputs :
        LET p == <<selected_dir,
                   IF endswith_grnt(text) THEN text ELSE Append(text, ".grnt")>>
        IN  p \in DOMAIN fs => create(App, text).fs[p] = fs[p]

====
